---- MODULE Spec2Model ----
(***************************************************************************)
(* terraform-provider-gopass: the gopass_secret resource lifecycle         *)
(* (secret_resource.go), the gopass client wrapper (gopass_client.go) and  *)
(* the nested-object builder of the gopass_env ephemeral resource.         *)
(*                                                                         *)
(* Strings are sequences of one-character strings, so that Split and       *)
(* Contains are computed rather than assumed.                              *)
(***************************************************************************)
EXTENDS Integers, Sequences, FiniteSets, TLC

VARIABLES
    client,     \* GopassClient: [store |-> BOOLEAN]  (c.store != nil)
    secrets,    \* gopass store: path -> [exists, password]
    revisions,  \* gopass store: path -> [exists, list]
    tfstate,    \* Terraform state of the gopass_secret resource
    last,       \* the last call: its request, its response, its store traffic
    clientB,    \* second run of the same call sequence (other value_wo values)
    secretsB,
    revisionsB,
    tfstateB,
    ret,        \* result of the last direct client call
    flatMap,    \* buildNestedObject: the input map
    pending,    \* buildNestedObject: keys the range loop has not visited yet
    root,       \* buildNestedObject: the node tree
    status,     \* buildNestedObject: "insert" | "done" | "panic"
    object,     \* buildNestedObject: the returned types.Object
    drift,      \* history of the drift reports: what Read has warned of, and
                \* whether the secret was written since the count was recorded
    env,        \* gopass_env: the last Open or GetEnvSecrets call and its result
    mu,         \* GopassClient.mu: 0 when unlocked, else the goroutine holding it
    handle,     \* GopassClient.store by identity: 0 is nil, n the n-th store apiNew made
    pc,         \* where each goroutine is in its client operation
    local,      \* each goroutine's `store` returned by apiNew
    result,     \* what each goroutine's last ensureStore returned
    created,    \* how many apiNew calls have succeeded
    failed,     \* whether an initialisation has failed, and whether one was tried since
    reading     \* a Read in flight: past its existence check, before its revision lookup

vars == <<client, secrets, revisions, tfstate, last,
          clientB, secretsB, revisionsB, tfstateB, ret,
          flatMap, pending, root, status, object, drift, env,
          mu, handle, pc, local, result, created, failed, reading>>

concVars == <<mu, handle, pc, local, result, created, failed>>

lifecycleVars == <<client, secrets, revisions, tfstate, last>>
shadowVars == <<clientB, secretsB, revisionsB, tfstateB>>
treeVars == <<flatMap, pending, root, status, object>>

----------------------------------------------------------------------------
(* Bounds *)

MaxRevisions == 3   \* longest revision history the store is driven to
MaxVersion == 2     \* value_wo_version ranges over 1..MaxVersion
MaxPathLen == 3     \* longest key of a flat map, in characters
MaxKeys == 2        \* most entries of a flat map

----------------------------------------------------------------------------
(* Strings *)

Alphabet == {"a", "/"}

RECURSIVE StringsUpTo(_)
StringsUpTo(n) ==
    IF n = 0 THEN {<<>>}
    ELSE LET shorter == StringsUpTo(n - 1)
         IN shorter \cup {Append(s, c) : s \in {t \in shorter : Len(t) = n - 1}, c \in Alphabet}

\* strings.Contains(s, sub)
Contains(s, sub) ==
    \E i \in 0..(Len(s) - Len(sub)) :
        \A j \in 1..Len(sub) : s[i + j] = sub[j]

\* strings.Split(s, "/")
RECURSIVE SplitFrom(_, _, _, _)
SplitFrom(s, i, cur, acc) ==
    IF i > Len(s) THEN Append(acc, cur)
    ELSE IF s[i] = "/" THEN SplitFrom(s, i + 1, <<>>, Append(acc, cur))
    ELSE SplitFrom(s, i + 1, Append(cur, s[i]), acc)

Split(s) == SplitFrom(s, 1, <<>>, <<>>)

----------------------------------------------------------------------------
(* buildNestedObject: the node tree *)

TreeValues == {<<"x">>, <<"y">>}

\* Mutant: the assignment replaces the map
MapSetAlone(m, k, v) == [x \in {k} |-> v]

\* map[k] = v on a Go map held as a function
MapSet(m, k, v) == [x \in (DOMAIN m) \cup {k} |-> IF x = k THEN v ELSE m[x]]

\* &node{value: &valueCopy}: children stays the nil map
LeafNode(v) ==
    [value |-> [nil |-> FALSE, s |-> v], children |-> [nil |-> TRUE, m |-> <<>>]]

\* &node{children: make(map[string]*node)}
BranchNode ==
    [value |-> [nil |-> TRUE, s |-> <<>>], children |-> [nil |-> FALSE, m |-> <<>>]]

\* Mutant: the intermediate branch is created anew each time
ChildMissingAlways(current, part) == TRUE

\* current.children[part] == nil; reading a nil map yields nil
ChildMissing(current, part) ==
    current.children.nil \/ part \notin DOMAIN current.children.m

\* The inner loop over parts, from index i with the cursor at `current`.
\* Writing an entry of a nil map panics; node is the subtree as it then stands.
RECURSIVE InsertParts(_, _, _, _)
InsertParts(current, parts, i, value) ==
    LET part == parts[i]
        isLeaf == (i = Len(parts))
    IN  IF isLeaf
        THEN IF current.children.nil
             THEN [panic |-> TRUE, node |-> current]
             ELSE [panic |-> FALSE,
                   node |-> [current EXCEPT !.children.m = MapSet(@, part, LeafNode(value))]]
        ELSE IF ChildMissing(current, part) /\ current.children.nil
             THEN [panic |-> TRUE, node |-> current]
             ELSE LET child == IF ChildMissing(current, part)
                               THEN BranchNode
                               ELSE current.children.m[part]
                      sub == InsertParts(child, parts, i + 1, value)
                  IN  [panic |-> sub.panic,
                       node |-> [current EXCEPT !.children.m = MapSet(@, part, sub.node)]]

\* types.StringValue / types.ObjectValue / a null object
StringValue(s) == [type |-> "string", state |-> "known", str |-> s, attrs |-> <<>>]
ObjectValue(attrValues) ==
    [type |-> "object", state |-> "known", str |-> <<>>, attrs |-> attrValues]
ObjectNull == [type |-> "object", state |-> "null", str |-> <<>>, attrs |-> <<>>]

\* buildObject: ranging over a nil children map visits nothing
RECURSIVE buildObject(_)
buildObject(n) ==
    LET keys == IF n.children.nil THEN {} ELSE DOMAIN n.children.m
    IN  ObjectValue([key \in keys |->
            IF ~n.children.m[key].value.nil
            THEN StringValue(n.children.m[key].value.s)
            ELSE buildObject(n.children.m[key])])

\* buildNestedObject run over the entries in the given iteration order
RECURSIVE InsertAll(_, _, _, _)
InsertAll(tree, m, order, i) ==
    IF i > Len(order) THEN [panic |-> FALSE, object |-> buildObject(tree)]
    ELSE LET r == InsertParts(tree, Split(order[i]), 1, m[order[i]])
         IN  IF r.panic THEN [panic |-> TRUE, object |-> ObjectNull]
             ELSE InsertAll(r.node, m, order, i + 1)

buildNestedObject(m, order) == InsertAll(BranchNode, m, order, 1)

\* The orders in which range may visit the keys of a map
Orders(keys) ==
    {o \in [1..Cardinality(keys) -> keys] : \A k \in keys : \E i \in DOMAIN o : o[i] = k}

\* The sets of at most n keys
RECURSIVE KeySets(_)
KeySets(n) ==
    IF n = 0 THEN {{}}
    ELSE LET fewer == KeySets(n - 1)
         IN fewer \cup {ks \cup {k} : ks \in fewer, k \in StringsUpTo(MaxPathLen)}

FlatMaps == UNION {[ks -> TreeValues] : ks \in KeySets(MaxKeys)}

TreeIdle ==
    /\ flatMap = <<>>
    /\ pending = {}
    /\ root = BranchNode
    /\ status = "idle"
    /\ object = ObjectNull

\* One iteration of `for path, value := range flatMap`
RangeStep ==
    /\ status = "insert"
    /\ \E path \in pending :
        LET r == InsertParts(root, Split(path), 1, flatMap[path])
        IN  IF r.panic
            THEN /\ status' = "panic"
                 /\ UNCHANGED <<root, pending>>
            ELSE /\ root' = r.node
                 /\ pending' = pending \ {path}
                 /\ status' = status
    /\ UNCHANGED <<flatMap, object>>
    /\ UNCHANGED <<lifecycleVars, shadowVars, ret, drift, env, concVars, reading>>

\* return buildObject(root)
ReturnObject ==
    /\ status = "insert"
    /\ pending = {}
    /\ object' = buildObject(root)
    /\ status' = "done"
    /\ UNCHANGED <<flatMap, pending, root>>
    /\ UNCHANGED <<lifecycleVars, shadowVars, ret, drift, env, concVars, reading>>

----------------------------------------------------------------------------
(* The gopass store behind the client, and the calls that can fail *)

\* The path the gopass_secret resource manages, and the values written to it
SecretPath == <<"p">>
StorePaths == {SecretPath}
SecretValues == {<<"s", "1">>, <<"s", "2">>}

NotFoundText == <<"n", "o", "t", " ", "f", "o", "u", "n", "d">>
MsgNotFound == <<"s", "e", "c", "r", "e", "t", " ">> \o NotFoundText
MsgDenied == <<"p", "e", "r", "m", "i", "s", "s", "i", "o", "n", " ", "d", "e", "n", "i", "e", "d">>
MsgGpgKey == <<"g", "p", "g", ":", " ", "k", "e", "y", " ">> \o NotFoundText
\* Messages of failures that are not the secret being absent
ErrMsgs == {MsgDenied, MsgGpgKey}

\* What goes wrong inside one client call: nothing, apiNew failing, the store
\* call failing with a message, Get returning a nil secret, Revisions failing
NoFault == [kind |-> "none", msg |-> <<>>]
Faults ==
    {NoFault, [kind |-> "init", msg |-> <<>>], [kind |-> "nil", msg |-> <<>>],
     [kind |-> "revisions", msg |-> <<>>]}
    \cup {[kind |-> "store", msg |-> m] : m \in ErrMsgs}

\* The faults of a handler's two client calls. A fault in the first call either
\* ends the handler or changes nothing, so it is never paired with a second one.
FaultPairs == {<<NoFault, f>> : f \in Faults} \cup {<<f, NoFault>> : f \in Faults}

NoError == [nil |-> TRUE, msg |-> <<>>]
Error(m) == [nil |-> FALSE, msg |-> m]

NoSecret == [exists |-> FALSE, password |-> <<>>]
NoRevisions == [exists |-> FALSE, list |-> <<>>]

\* The client and the store it wraps, as one value threaded through a handler
World(c, s, r) == [store |-> c.store, secrets |-> s, revisions |-> r]

\* store.Get(ctx, path, "latest")
StoreGet(w, path, fault) ==
    IF fault.kind = "store" THEN [nil |-> TRUE, err |-> Error(fault.msg)]
    ELSE IF fault.kind = "nil" THEN [nil |-> TRUE, err |-> NoError]
    ELSE IF ~w.secrets[path].exists THEN [nil |-> TRUE, err |-> Error(MsgNotFound)]
    ELSE [nil |-> FALSE, err |-> NoError]

\* store.Set(ctx, path, secret): a new revision is appended
StoreSet(w, path, value, fault) ==
    IF fault.kind = "store" THEN [w |-> w, err |-> Error(fault.msg)]
    ELSE [w |-> [w EXCEPT
                   !.secrets[path] = [exists |-> TRUE, password |-> value],
                   !.revisions[path] =
                       IF ~@.exists THEN [exists |-> TRUE, list |-> <<1>>]
                       ELSE [exists |-> TRUE, list |-> Append(@.list, Len(@.list) + 1)]],
          err |-> NoError]

\* store.Remove(ctx, path)
StoreRemove(w, path, fault) ==
    IF fault.kind = "store" THEN [w |-> w, err |-> Error(fault.msg)]
    ELSE IF ~w.secrets[path].exists THEN [w |-> w, err |-> Error(MsgNotFound)]
    ELSE [w |-> [w EXCEPT !.secrets[path] = NoSecret, !.revisions[path] = NoRevisions],
          err |-> NoError]

\* store.Revisions(ctx, path)
StoreRevisions(w, path, fault) ==
    IF fault.kind = "revisions" \/ ~w.revisions[path].exists
    THEN [list |-> <<>>, err |-> Error(MsgDenied)]
    ELSE [list |-> w.revisions[path].list, err |-> NoError]

----------------------------------------------------------------------------
(* GopassClient *)
(* Each operation returns the world it leaves, its results, and `calls`:   *)
(* the apiNew and store calls it made, a failed one marked ":err", or      *)
(* ":notfound" where the store answered that the secret is not there, and  *)
(* last the operation's own name marked ":err" if it returns an error.     *)

Outcome(name, err) ==
    IF err.nil THEN name
    ELSE IF err.msg = MsgNotFound THEN name \o ":notfound"
    ELSE name \o ":err"

\* The operation returns r; an error it returns is noted after its calls
Returns(name, r) ==
    IF r.err.nil THEN r ELSE [r EXCEPT !.calls = Append(@, name \o ":err")]

ensureStore(w, fault) ==
    IF w.store THEN [w |-> w, err |-> NoError, calls |-> <<>>]
    ELSE IF fault.kind = "init"
    THEN [w |-> w, err |-> Error(MsgDenied), calls |-> <<"New:err">>]
    ELSE [w |-> [w EXCEPT !.store = TRUE], err |-> NoError, calls |-> <<"New">>]

SetSecret(w, path, value, fault) ==
    Returns("SetSecret",
        LET e == ensureStore(w, fault)
        IN  IF ~e.err.nil THEN [w |-> e.w, err |-> e.err, calls |-> e.calls]
            ELSE LET r == StoreSet(e.w, path, value, fault)
                 IN  [w |-> r.w, err |-> r.err,
                      calls |-> Append(e.calls, Outcome("Set", r.err))])

RemoveSecret(w, path, fault) ==
    Returns("RemoveSecret",
        LET e == ensureStore(w, fault)
        IN  IF ~e.err.nil THEN [w |-> e.w, err |-> e.err, calls |-> e.calls]
            ELSE LET r == StoreRemove(e.w, path, fault)
                 IN  [w |-> r.w, err |-> r.err,
                      calls |-> Append(e.calls, Outcome("Remove", r.err))])

SecretExists(w, path, fault) ==
    Returns("SecretExists",
        LET e == ensureStore(w, fault)
        IN  IF ~e.err.nil THEN [w |-> e.w, val |-> FALSE, err |-> e.err, calls |-> e.calls]
            ELSE LET g == StoreGet(e.w, path, fault)
                     calls == Append(e.calls, Outcome("Get", g.err))
                 IN  IF ~g.err.nil
                     THEN IF Contains(g.err.msg, NotFoundText)
                          THEN [w |-> e.w, val |-> FALSE, err |-> NoError, calls |-> calls]
                          ELSE [w |-> e.w, val |-> FALSE, err |-> g.err, calls |-> calls]
                     ELSE [w |-> e.w, val |-> ~g.nil, err |-> NoError, calls |-> calls])

\* Mutant: the length is returned as it is, with no fallback to 1
RevisionsToCountNoFallback(rv) == Len(rv.list)

\* The count GetRevisionCount derives from the Revisions() result
RevisionsToCount(rv) ==
    IF ~rv.err.nil THEN 1
    ELSE IF Len(rv.list) = 0 THEN 1
    ELSE Len(rv.list)

GetRevisionCount(w, path, fault) ==
    Returns("GetRevisionCount",
        LET e == ensureStore(w, fault)
        IN  IF ~e.err.nil THEN [w |-> e.w, val |-> 0, err |-> e.err, calls |-> e.calls]
            ELSE LET g == StoreGet(e.w, path, fault)
                     calls == Append(e.calls, Outcome("Get", g.err))
                 IN  IF ~g.err.nil
                     THEN IF Contains(g.err.msg, NotFoundText)
                          THEN [w |-> e.w, val |-> 0, err |-> NoError, calls |-> calls]
                          ELSE [w |-> e.w, val |-> 0, err |-> g.err, calls |-> calls]
                     ELSE IF g.nil
                     THEN [w |-> e.w, val |-> 0, err |-> NoError, calls |-> calls]
                     ELSE LET rv == StoreRevisions(e.w, path, fault)
                          IN  [w |-> e.w, val |-> RevisionsToCount(rv), err |-> NoError,
                               calls |-> Append(calls, Outcome("Revisions", rv.err))])

----------------------------------------------------------------------------
(* Terraform values and the SecretResourceModel *)

StringNull == [state |-> "null", value |-> <<>>]
StringUnknown == [state |-> "unknown", value |-> <<>>]
StringKnown(v) == [state |-> "known", value |-> v]
Int64Null == [state |-> "null", value |-> 0]
Int64Unknown == [state |-> "unknown", value |-> 0]
Int64Value(n) == [state |-> "known", value |-> n]
BoolNull == [state |-> "null", value |-> FALSE]
BoolValue(b) == [state |-> "known", value |-> b]

IsNull(v) == v.state = "null"
IsUnknown(v) == v.state = "unknown"

\* All attributes null: the state before anything is set
NullModel ==
    [ID |-> StringNull, Path |-> StringNull, ValueWO |-> StringNull,
     ValueWOVersion |-> Int64Null, DeleteOnRemove |-> BoolNull,
     RevisionCount |-> Int64Null]

NoState == [present |-> FALSE, data |-> NullModel]
State(d) == [present |-> TRUE, data |-> d]

NoDiags == [errors |-> {}, warnings |-> {}]
AddError(d, summary) == [d EXCEPT !.errors = @ \cup {summary}]
AddWarning(d, summary) == [d EXCEPT !.warnings = @ \cup {summary}]
HasError(d) == d.errors # {}

\* value_wo_version as the configuration can give it
Versions == {Int64Null} \cup {Int64Value(n) : n \in 1..MaxVersion}

\* value_wo as the configuration gives it at apply time: absent, or a known value
ConfigValues == {StringNull} \cup {StringKnown(v) : v \in SecretValues}

\* The plan of a create: computed attributes unknown, value_wo never planned
CreatePlan(version, dor) ==
    [ID |-> StringUnknown, Path |-> StringKnown(SecretPath), ValueWO |-> StringNull,
     ValueWOVersion |-> version, DeleteOnRemove |-> BoolValue(dor),
     RevisionCount |-> Int64Unknown]

\* The plan of an update: id and revision_count use the state for unknown;
\* delete_on_remove stays as it was created
UpdatePlan(prior, version) ==
    [ID |-> prior.ID, Path |-> prior.Path, ValueWO |-> StringNull,
     ValueWOVersion |-> version, DeleteOnRemove |-> prior.DeleteOnRemove,
     RevisionCount |-> prior.RevisionCount]

\* The configuration behind a plan: the only place value_wo appears
Config(plan, value) ==
    [plan EXCEPT !.ID = StringNull, !.ValueWO = value, !.RevisionCount = Int64Null]

----------------------------------------------------------------------------
(* SecretResource: the lifecycle handlers *)

\* Mutant: the null check is missing
ValueProvidedNoNullCheck(config) == ~IsUnknown(config.ValueWO)

\* !config.ValueWO.IsNull() && !config.ValueWO.IsUnknown()
ValueProvided(config) == ~IsNull(config.ValueWO) /\ ~IsUnknown(config.ValueWO)

\* Mutant: the model is read from the configuration, value_wo included
PlannedDataFromConfig(plan, config) == config

\* The model Create and Update start from: req.Plan.Get(ctx, &data)
PlannedData(plan, config) == plan

\* Mutant: the id is left as planned
CreatedIDAsPlanned(data) == data.ID

\* data.ID = data.Path
CreatedID(data) == data.Path

Create(w, plan, config, f1, f2) ==
    LET data == PlannedData(plan, config)
        secretPath == data.Path.value
        set == IF ValueProvided(config)
               THEN SetSecret(w, secretPath, config.ValueWO.value, f1)
               ELSE [w |-> w, err |-> NoError, calls |-> <<>>]
    IN  IF ~set.err.nil
        THEN [w |-> set.w, state |-> NoState, calls |-> set.calls,
              diags |-> AddError(NoDiags, "Failed to create secret")]
        ELSE LET diags == IF ValueProvided(config) THEN NoDiags
                          ELSE AddWarning(NoDiags, "No value provided")
                 rc == GetRevisionCount(set.w, secretPath, f2)
                 revCount == IF ~rc.err.nil THEN 1 ELSE rc.val
             IN  [w |-> rc.w,
                  state |-> State([data EXCEPT !.RevisionCount = Int64Value(revCount),
                                               !.ID = CreatedID(data)]),
                  calls |-> set.calls \o rc.calls,
                  diags |-> diags]

\* Mutant: any difference in the counts is taken for drift
DriftDetectedOnAnyChange(storedRevCount, currentRevCount) ==
    storedRevCount > 0 /\ currentRevCount # storedRevCount

\* Mutant: a recorded count of 1 is taken for 'no history'
DriftDetectedAboveOne(storedRevCount, currentRevCount) ==
    storedRevCount > 1 /\ currentRevCount > storedRevCount

\* storedRevCount > 0 && currentRevCount > storedRevCount
DriftDetected(storedRevCount, currentRevCount) ==
    storedRevCount > 0 /\ currentRevCount > storedRevCount

\* Mutant: the recorded count is kept when drift is reported
RefreshedCountUnlessDrift(storedRevCount, currentRevCount) ==
    IF DriftDetected(storedRevCount, currentRevCount) THEN storedRevCount
    ELSE currentRevCount

\* data.RevisionCount = types.Int64Value(currentRevCount), after the drift check
RefreshedCount(storedRevCount, currentRevCount) == currentRevCount

\* Mutant: the resource is kept in state
RemovedResourceKept(prior) == prior

\* resp.State.RemoveResource(ctx)
RemovedResource(prior) == NoState

\* Read from its revision lookup on, the existence check having made exCalls
\* and found the secret; w is the store as it is when the lookup is made
ReadDriftCheck(w, prior, exCalls, f2) ==
    LET data == prior.data
        secretPath == data.Path.value
        rc == GetRevisionCount(w, secretPath, f2)
    IN  IF ~rc.err.nil
        THEN [w |-> rc.w, state |-> State(data), calls |-> exCalls \o rc.calls,
              diags |-> NoDiags]
        ELSE [w |-> rc.w,
              state |-> State([data EXCEPT !.RevisionCount =
                          Int64Value(RefreshedCount(data.RevisionCount.value, rc.val))]),
              calls |-> exCalls \o rc.calls,
              diags |-> IF DriftDetected(data.RevisionCount.value, rc.val)
                        THEN AddWarning(NoDiags, "Secret modified outside of Terraform")
                        ELSE NoDiags]

Read(w, prior, f1, f2) ==
    LET data == prior.data
        secretPath == data.Path.value
        ex == SecretExists(w, secretPath, f1)
    IN  IF ~ex.err.nil
        THEN [w |-> ex.w, state |-> prior, calls |-> ex.calls,
              diags |-> AddError(NoDiags, "Failed to read secret")]
        ELSE IF ~ex.val
        THEN [w |-> ex.w, state |-> RemovedResource(prior), calls |-> ex.calls,
              diags |-> NoDiags]
        ELSE ReadDriftCheck(ex.w, prior, ex.calls, f2)

\* Mutant: a planned version alone triggers the write
VersionChangedIfPlanned(planned, stored) == ~IsNull(planned)

\* Mutant: the branch for a state without a version is missing
VersionChangedBothSet(planned, stored) ==
    ~IsNull(planned) /\ ~IsNull(stored) /\ planned.value # stored.value

\* The value_wo_version comparison that gates Update's write
VersionChanged(planned, stored) ==
    IF ~IsNull(planned) /\ ~IsNull(stored) THEN planned.value # stored.value
    ELSE IF ~IsNull(planned) /\ IsNull(stored) THEN TRUE
    ELSE FALSE

\* Mutant: the fallback of Create is used
KeptRevisionCountFallback(state) == 1

\* revCount = state.RevisionCount.ValueInt64(), when the lookup fails
KeptRevisionCount(state) == state.RevisionCount.value

\* Mutant: the planned values are saved although the write failed
StateLeftOnErrorAsPlanned(prior, data) == State(data)

\* Update returns before resp.State.Set: the response keeps the prior state
StateLeftOnError(prior, data) == prior

Update(w, prior, plan, config, f1, f2) ==
    LET data == PlannedData(plan, config)
        state == prior.data
        secretPath == data.Path.value
        versionChanged == VersionChanged(data.ValueWOVersion, state.ValueWOVersion)
        write == versionChanged /\ ValueProvided(config)
        set == IF write
               THEN SetSecret(w, secretPath, config.ValueWO.value, f1)
               ELSE [w |-> w, err |-> NoError, calls |-> <<>>]
    IN  IF ~set.err.nil
        THEN [w |-> set.w, state |-> StateLeftOnError(prior, data), calls |-> set.calls,
              diags |-> AddError(NoDiags, "Failed to update secret")]
        ELSE LET diags == IF versionChanged /\ ~ValueProvided(config)
                          THEN AddWarning(NoDiags, "Version changed but no value provided")
                          ELSE NoDiags
                 rc == GetRevisionCount(set.w, secretPath, f2)
                 revCount == IF ~rc.err.nil THEN KeptRevisionCount(state) ELSE rc.val
             IN  [w |-> rc.w,
                  state |-> State([data EXCEPT !.RevisionCount = Int64Value(revCount)]),
                  calls |-> set.calls \o rc.calls,
                  diags |-> diags]

\* Mutant: the secret is removed whatever delete_on_remove says
deleteOnRemoveIgnored(data) == TRUE

\* deleteOnRemove := data.DeleteOnRemove.ValueBool()
deleteOnRemove(data) == data.DeleteOnRemove.value

\* Mutant: the secret is removed without the existence check
DeleteWithoutCheck(w, prior, f1, f2) ==
    LET data == prior.data
        secretPath == data.Path.value
    IN  IF ~deleteOnRemove(data)
        THEN [w |-> w, state |-> NoState, calls |-> <<>>, diags |-> NoDiags]
        ELSE LET rm == RemoveSecret(w, secretPath, f2)
             IN  IF ~rm.err.nil
                 THEN [w |-> rm.w, state |-> prior, calls |-> rm.calls,
                       diags |-> AddError(NoDiags, "Failed to remove secret")]
                 ELSE [w |-> rm.w, state |-> NoState, calls |-> rm.calls, diags |-> NoDiags]

\* Terraform drops the resource from state unless Delete reports an error
Delete(w, prior, f1, f2) ==
    LET data == prior.data
        secretPath == data.Path.value
    IN  IF ~deleteOnRemove(data)
        THEN [w |-> w, state |-> NoState, calls |-> <<>>, diags |-> NoDiags]
        ELSE LET ex == SecretExists(w, secretPath, f1)
             IN  IF ~ex.err.nil
                 THEN [w |-> ex.w, state |-> NoState, calls |-> ex.calls,
                       diags |-> AddWarning(NoDiags, "Failed to check secret existence")]
                 ELSE IF ~ex.val
                 THEN [w |-> ex.w, state |-> NoState, calls |-> ex.calls, diags |-> NoDiags]
                 ELSE LET rm == RemoveSecret(ex.w, secretPath, f2)
                      IN  IF ~rm.err.nil
                          THEN [w |-> rm.w, state |-> prior, calls |-> ex.calls \o rm.calls,
                                diags |-> AddError(NoDiags, "Failed to remove secret")]
                          ELSE [w |-> rm.w, state |-> NoState,
                                calls |-> ex.calls \o rm.calls, diags |-> NoDiags]

ImportState(w, id, f1, f2) ==
    LET secretPath == id
        ex == SecretExists(w, secretPath, f1)
    IN  IF ~ex.err.nil
        THEN [w |-> ex.w, state |-> NoState, calls |-> ex.calls,
              diags |-> AddError(NoDiags, "Failed to import secret")]
        ELSE IF ~ex.val
        THEN [w |-> ex.w, state |-> NoState, calls |-> ex.calls,
              diags |-> AddError(NoDiags, "Secret not found")]
        ELSE LET rc == GetRevisionCount(ex.w, secretPath, f2)
                 revCount == IF ~rc.err.nil THEN 1 ELSE rc.val
             IN  [w |-> rc.w,
                  state |-> State([NullModel EXCEPT
                                     !.ID = StringKnown(secretPath),
                                     !.Path = StringKnown(secretPath),
                                     !.DeleteOnRemove = BoolValue(TRUE),
                                     !.RevisionCount = Int64Value(revCount)]),
                  calls |-> ex.calls \o rc.calls,
                  diags |-> NoDiags]

----------------------------------------------------------------------------
(* The resource under Terraform, with other actors writing to the store *)

W == World(client, secrets, revisions)
WB == World(clientB, secretsB, revisionsB)

\* What the last call was asked and what it answered
Call(op, prior, plan, config, r) ==
    [op |-> op,
     storedVersion |-> prior.data.ValueWOVersion,
     storedCount |-> prior.data.RevisionCount.value,
     version |-> plan.ValueWOVersion,
     value |-> config.ValueWO,
     diags |-> r.diags, calls |-> r.calls]

NoCall(op) ==
    [op |-> op, storedVersion |-> Int64Null, storedCount |-> 0, version |-> Int64Null,
     value |-> StringNull, diags |-> NoDiags, calls |-> <<>>]

\* The handler has returned r: the store, the state and the response are as it left them
Returned(op, prior, plan, config, r) ==
    /\ client' = [store |-> r.w.store]
    /\ secrets' = r.w.secrets
    /\ revisions' = r.w.revisions
    /\ tfstate' = r.state
    /\ last' = Call(op, prior, plan, config, r)

ReturnedB(r) ==
    /\ clientB' = [store |-> r.w.store]
    /\ secretsB' = r.w.secrets
    /\ revisionsB' = r.w.revisions
    /\ tfstateB' = r.state

\* The revision history is driven no further than MaxRevisions
Room == Len(revisions[SecretPath].list) < MaxRevisions

InitialStores ==
    {[secret |-> NoSecret, revisions |-> NoRevisions]}
    \cup {[secret |-> [exists |-> TRUE, password |-> v], revisions |-> r] :
            v \in SecretValues,
            r \in {NoRevisions, [exists |-> TRUE, list |-> <<>>],
                   [exists |-> TRUE, list |-> <<1>>]}}

ShadowIdle ==
    /\ clientB = [store |-> FALSE]
    /\ secretsB = [p \in StorePaths |-> NoSecret]
    /\ revisionsB = [p \in StorePaths |-> NoRevisions]
    /\ tfstateB = NoState

\* What a direct client call was given and what it returned
Ret(op, fault, r, count, exists) ==
    [op |-> op, fault |-> fault, hadStore |-> client.store,
     count |-> count, exists |-> exists, err |-> r.err, calls |-> r.calls]

ClientIdle ==
    ret = [op |-> "none", fault |-> NoFault, hadStore |-> FALSE,
           count |-> 0, exists |-> FALSE, err |-> NoError, calls |-> <<>>]

\* No gopass_env call yet
EnvIdle ==
    env = [op |-> "none", path |-> <<>>, fault |-> NoFault, failOnGet |-> {}, values |-> <<>>,
           err |-> NoError, diags |-> NoDiags, panic |-> FALSE,
           credentials |-> ObjectNull]

\* No goroutine has called the client; no Read is in flight
ConcIdle ==
    /\ mu = 0
    /\ handle = 0
    /\ pc = <<>>
    /\ local = <<>>
    /\ result = <<>>
    /\ created = 0
    /\ failed = [ever |-> FALSE, retried |-> FALSE]

ReadIdle == reading = [at |-> "idle", calls |-> <<>>]

\* No drift reported, no write since the count was recorded
DriftIdle == drift = [warned |-> FALSE, modified |-> "no", met |-> "no", metWarned |-> FALSE]

LifecycleInit ==
    /\ client = [store |-> FALSE]
    /\ \E s \in InitialStores :
        /\ secrets = [p \in StorePaths |-> s.secret]
        /\ revisions = [p \in StorePaths |-> s.revisions]
    /\ tfstate = NoState
    /\ last = NoCall("none")

Init == LifecycleInit /\ ShadowIdle /\ ClientIdle /\ TreeIdle /\ DriftIdle /\ EnvIdle /\ ConcIdle /\ ReadIdle

CreateResource ==
    /\ ~tfstate.present
    /\ \E version \in Versions, dor \in BOOLEAN, value \in ConfigValues, f \in FaultPairs :
        LET plan == CreatePlan(version, dor)
            config == Config(plan, value)
        IN  /\ ValueProvided(config) => Room
            /\ Returned("Create", tfstate, plan, config,
                        Create(W, plan, config, f[1], f[2]))
    /\ UNCHANGED <<shadowVars, ret, treeVars, drift, env, concVars, reading>>

ReadResource ==
    /\ tfstate.present
    /\ \E f \in FaultPairs :
        Returned("Read", tfstate, NullModel, NullModel, Read(W, tfstate, f[1], f[2]))
    /\ UNCHANGED <<shadowVars, ret, treeVars, drift, env, concVars, reading>>

UpdateResource ==
    /\ tfstate.present
    /\ \E version \in Versions, value \in ConfigValues, f \in FaultPairs :
        LET plan == UpdatePlan(tfstate.data, version)
            config == Config(plan, value)
        IN  /\ ValueProvided(config) => Room
            /\ Returned("Update", tfstate, plan, config,
                        Update(W, tfstate, plan, config, f[1], f[2]))
    /\ UNCHANGED <<shadowVars, ret, treeVars, drift, env, concVars, reading>>

DeleteResource ==
    /\ tfstate.present
    /\ \E f \in FaultPairs :
        Returned("Delete", tfstate, NullModel, NullModel, Delete(W, tfstate, f[1], f[2]))
    /\ UNCHANGED <<shadowVars, ret, treeVars, drift, env, concVars, reading>>

ImportResource ==
    /\ ~tfstate.present
    /\ \E f \in FaultPairs :
        Returned("ImportState", tfstate, NullModel, NullModel,
                 ImportState(W, SecretPath, f[1], f[2]))
    /\ UNCHANGED <<shadowVars, ret, treeVars, drift, env, concVars, reading>>

\* Someone else writes the secret (gopass insert, another tool)
ExternalSet ==
    /\ Room
    /\ \E v \in SecretValues :
        LET r == StoreSet(W, SecretPath, v, NoFault)
        IN  /\ secrets' = r.w.secrets
            /\ revisions' = r.w.revisions
    /\ last' = NoCall("external")
    /\ UNCHANGED <<client, tfstate, shadowVars, ret, treeVars, drift, env, concVars, reading>>

\* Someone else removes the secret
ExternalRemove ==
    /\ secrets[SecretPath].exists
    /\ LET r == StoreRemove(W, SecretPath, NoFault)
       IN  /\ secrets' = r.w.secrets
           /\ revisions' = r.w.revisions
    /\ last' = NoCall("external")
    /\ UNCHANGED <<client, tfstate, shadowVars, ret, treeVars, drift, env, concVars, reading>>

Next ==
    \/ CreateResource
    \/ ReadResource
    \/ UpdateResource
    \/ DeleteResource
    \/ ImportResource
    \/ ExternalSet
    \/ ExternalRemove

Spec == Init /\ [][Next]_vars

----------------------------------------------------------------------------
(* Two runs of one call sequence that differ only in the value_wo supplied. *)
(* delete_on_remove is left at its default: no run deletes.               *)

\* The second run's configuration: a value wherever the first run has one
ConfigsB(config) ==
    IF ValueProvided(config)
    THEN {[config EXCEPT !.ValueWO = StringKnown(v)] : v \in SecretValues}
    ELSE {config}

InitWO ==
    /\ LifecycleInit
    /\ clientB = client
    /\ secretsB = secrets
    /\ revisionsB = revisions
    /\ tfstateB = tfstate
    /\ ClientIdle
    /\ TreeIdle
    /\ DriftIdle
    /\ EnvIdle
    /\ ConcIdle
    /\ ReadIdle

CreateBoth ==
    /\ ~tfstate.present
    /\ \E version \in Versions, value \in ConfigValues, f \in FaultPairs :
        LET plan == CreatePlan(version, TRUE)
            config == Config(plan, value)
        IN  /\ ValueProvided(config) => Room
            /\ Returned("Create", tfstate, plan, config,
                        Create(W, plan, config, f[1], f[2]))
            /\ \E configB \in ConfigsB(config) :
                ReturnedB(Create(WB, plan, configB, f[1], f[2]))
    /\ UNCHANGED <<ret, treeVars, drift, env, concVars, reading>>

ReadBoth ==
    /\ tfstate.present
    /\ \E f \in FaultPairs :
        /\ Returned("Read", tfstate, NullModel, NullModel, Read(W, tfstate, f[1], f[2]))
        /\ ReturnedB(Read(WB, tfstateB, f[1], f[2]))
    /\ UNCHANGED <<ret, treeVars, drift, env, concVars, reading>>

UpdateBoth ==
    /\ tfstate.present
    /\ \E version \in Versions, value \in ConfigValues, f \in FaultPairs :
        LET plan == UpdatePlan(tfstate.data, version)
            planB == UpdatePlan(tfstateB.data, version)
            config == Config(plan, value)
        IN  /\ ValueProvided(config) => Room
            /\ Returned("Update", tfstate, plan, config,
                        Update(W, tfstate, plan, config, f[1], f[2]))
            /\ \E configB \in ConfigsB(Config(planB, value)) :
                ReturnedB(Update(WB, tfstateB, planB, configB, f[1], f[2]))
    /\ UNCHANGED <<ret, treeVars, drift, env, concVars, reading>>

ImportBoth ==
    /\ ~tfstate.present
    /\ \E f \in FaultPairs :
        /\ Returned("ImportState", tfstate, NullModel, NullModel,
                    ImportState(W, SecretPath, f[1], f[2]))
        /\ ReturnedB(ImportState(WB, SecretPath, f[1], f[2]))
    /\ UNCHANGED <<ret, treeVars, drift, env, concVars, reading>>

\* The same outside write reaches the store of either run
ExternalSetBoth ==
    /\ Room
    /\ \E v \in SecretValues :
        LET r == StoreSet(W, SecretPath, v, NoFault)
            rB == StoreSet(WB, SecretPath, v, NoFault)
        IN  /\ secrets' = r.w.secrets
            /\ revisions' = r.w.revisions
            /\ secretsB' = rB.w.secrets
            /\ revisionsB' = rB.w.revisions
    /\ last' = NoCall("external")
    /\ UNCHANGED <<client, tfstate, clientB, tfstateB, ret, treeVars, drift, env, concVars, reading>>

NextWO ==
    \/ CreateBoth
    \/ ReadBoth
    \/ UpdateBoth
    \/ ImportBoth
    \/ ExternalSetBoth

SpecWO == InitWO /\ [][NextWO]_vars

----------------------------------------------------------------------------
(* The client's operations called directly *)

InitClient ==
    /\ LifecycleInit
    /\ ShadowIdle
    /\ ClientIdle
    /\ TreeIdle
    /\ DriftIdle
    /\ EnvIdle
    /\ ConcIdle
    /\ ReadIdle

ClientReturned(r) ==
    /\ client' = [store |-> r.w.store]
    /\ secrets' = r.w.secrets
    /\ revisions' = r.w.revisions
    /\ UNCHANGED <<tfstate, last, shadowVars, treeVars, drift, env, concVars, reading>>

GetRevisionCountCall ==
    \E f \in Faults :
        LET r == GetRevisionCount(W, SecretPath, f)
        IN  /\ ret' = Ret("GetRevisionCount", f, r, r.val, FALSE)
            /\ ClientReturned(r)

SecretExistsCall ==
    \E f \in Faults :
        LET r == SecretExists(W, SecretPath, f)
        IN  /\ ret' = Ret("SecretExists", f, r, 0, r.val)
            /\ ClientReturned(r)

SetSecretCall ==
    /\ Room
    /\ \E f \in Faults, v \in SecretValues :
        LET r == SetSecret(W, SecretPath, v, f)
        IN  /\ ret' = Ret("SetSecret", f, r, 0, FALSE)
            /\ ClientReturned(r)

RemoveSecretCall ==
    \E f \in Faults :
        LET r == RemoveSecret(W, SecretPath, f)
        IN  /\ ret' = Ret("RemoveSecret", f, r, 0, FALSE)
            /\ ClientReturned(r)

NextClient ==
    \/ GetRevisionCountCall
    \/ SecretExistsCall
    \/ SetSecretCall
    \/ RemoveSecretCall

SpecClient == InitClient /\ [][NextClient]_vars

----------------------------------------------------------------------------
(* buildNestedObject run on every small flat map *)

InitTree ==
    /\ client = [store |-> FALSE]
    /\ secrets = [p \in StorePaths |-> NoSecret]
    /\ revisions = [p \in StorePaths |-> NoRevisions]
    /\ tfstate = NoState
    /\ last = NoCall("none")
    /\ ShadowIdle
    /\ ClientIdle
    /\ DriftIdle
    /\ EnvIdle
    /\ ConcIdle
    /\ ReadIdle
    /\ flatMap \in FlatMaps
    /\ pending = DOMAIN flatMap
    /\ root = BranchNode
    /\ status = "insert"
    /\ object = ObjectNull

NextTree ==
    \/ RangeStep
    \/ ReturnObject

SpecTree == InitTree /\ [][NextTree]_vars

----------------------------------------------------------------------------
(* Claims about buildNestedObject (SpecTree) *)

IsProperPrefix(p, q) == Len(p) < Len(q) /\ SubSeq(q, 1, Len(p)) = p

\* No key's segments are a proper prefix of another key's segments
PrefixFree(m) ==
    \A k1 \in DOMAIN m, k2 \in DOMAIN m : ~IsProperPrefix(Split(k1), Split(k2))

\* Following parts[i..] from obj ends in the string attribute holding value
RECURSIVE Reaches(_, _, _, _)
Reaches(obj, parts, i, value) ==
    /\ obj.type = "object"
    /\ obj.state = "known"
    /\ parts[i] \in DOMAIN obj.attrs
    /\ IF i = Len(parts)
       THEN obj.attrs[parts[i]] = StringValue(value)
       ELSE Reaches(obj.attrs[parts[i]], parts, i + 1, value)

\* Every node of a tree, by the segments that lead to it
RECURSIVE Nodes(_, _)
Nodes(n, prefix) ==
    {[path |-> prefix, leaf |-> ~n.value.nil, value |-> n.value.s]}
    \cup (IF n.children.nil THEN {}
          ELSE UNION {Nodes(n.children.m[k], Append(prefix, k)) : k \in DOMAIN n.children.m})

Inserted == (DOMAIN flatMap) \ pending

\* C7: buildNestedObject never fails and returns a non-null object, for every
\* input map, the empty one and those with a key that is a path prefix of
\* another included.
C7_BuildNeverFails ==
    /\ status # "panic"
    /\ status = "done" => ~IsNull(object)

\* C8 as stated: for every flat map, each entry is reachable in the built
\* tree along its path's segments and ends in a leaf with exactly its value.
C8_EveryEntryReachable ==
    status = "done" =>
        \A path \in DOMAIN flatMap : Reaches(object, Split(path), 1, flatMap[path])

\* C8 amended: for every flat map in which no key is a proper path prefix of
\* another key, the build completes and each entry is reachable in the built
\* tree along its path's segments, ending in a leaf with exactly its value.
C8_PrefixFreeEntriesReachable ==
    PrefixFree(flatMap) =>
        /\ status # "panic"
        /\ status = "done" =>
            \A path \in DOMAIN flatMap : Reaches(object, Split(path), 1, flatMap[path])

\* Two entries under one shared branch, and a flat one: all were built
C8_Witness ==
    /\ status = "done"
    /\ PrefixFree(flatMap)
    /\ \E k1 \in DOMAIN flatMap, k2 \in DOMAIN flatMap :
        /\ k1 # k2
        /\ Len(Split(k1)) >= 2
        /\ Len(Split(k2)) >= 2
        /\ Split(k1)[1] = Split(k2)[1]
        /\ flatMap[k1] # flatMap[k2]

\* C9: the result of buildNestedObject is the same whatever order the map's
\* entries are visited in.
C9_OrderIrrelevant ==
    status = "done" =>
        \A o \in Orders(DOMAIN flatMap) :
            buildNestedObject(flatMap, o) = [panic |-> FALSE, object |-> object]

\* The orders that complete all build the same object: order only decides
\* whether the build panics.
C9_CompletedOrdersAgree ==
    status = "done" =>
        \A o \in Orders(DOMAIN flatMap) :
            LET r == buildNestedObject(flatMap, o)
            IN  r.panic \/ r.object = object

\* The children of every branch are exactly the distinct next segments of the
\* inserted keys that pass through it
OneChildPerSegment(tree, keys) ==
    LET nodes == Nodes(tree, <<>>)
        parts == {Split(k) : k \in keys}
    IN  \A n \in nodes :
            ~n.leaf =>
                {c.path[Len(n.path) + 1] :
                    c \in {d \in nodes :
                             Len(d.path) = Len(n.path) + 1 /\ IsProperPrefix(n.path, d.path)}}
                = {p[Len(n.path) + 1] : p \in {q \in parts : IsProperPrefix(n.path, q)}}

\* An iteration keeps every node but the one it writes
NodesKept ==
    LET before == Nodes(root, <<>>)
        after == Nodes(root', <<>>)
    IN  \A path \in pending \ pending' :
            \A n \in before : n.path # Split(path) => n \in after

\* C10 as stated: paths with a common prefix share one branch per prefix:
\* every branch has exactly one child per distinct next segment, and inserting
\* another path never replaces or drops children already attached.
C10_SharedBranchesKept ==
    [][OneChildPerSegment(root', (DOMAIN flatMap) \ pending') /\ NodesKept]_vars

\* C10 amended: in a flat map in which no key is a proper path prefix of
\* another key, paths with a common prefix share one branch per prefix: every
\* branch has exactly one child per distinct next segment, and inserting
\* another path never replaces or drops children already attached.
C10_PrefixFreeSharedBranchesKept ==
    [][PrefixFree(flatMap) =>
        (OneChildPerSegment(root', (DOMAIN flatMap) \ pending') /\ NodesKept)]_vars

\* A second path went in under the branch the first one created
C10_Witness ==
    /\ status = "insert"
    /\ PrefixFree(flatMap)
    /\ Cardinality(Inserted) >= 2
    /\ \E n \in Nodes(root, <<>>) :
        /\ ~n.leaf
        /\ Len(n.path) >= 1
        /\ Cardinality({k \in Inserted : IsProperPrefix(n.path, Split(k))}) >= 2

----------------------------------------------------------------------------
(* Claims about the gopass_secret lifecycle (Spec, SpecWO) and the client   *)
(* (SpecClient)                                                            *)

Range(f) == {f[i] : i \in DOMAIN f}

DriftWarning == "Secret modified outside of Terraform"
NoValueWarning == "Version changed but no value provided"

StringAttributes == {"ID", "Path", "ValueWO"}

\* C1: the value supplied in value_wo never influences the Terraform state:
\* two runs of one sequence of Create, Read, Update and ImportState calls that
\* differ only in the values supplied hold identical state, and no attribute
\* of the state holds a supplied value.
C1_ValueNeverInState ==
    /\ tfstateB = tfstate
    /\ \A a \in StringAttributes :
        /\ tfstate.data[a].value \notin SecretValues
        /\ tfstateB.data[a].value \notin SecretValues

\* The two runs have written different values and Update has recorded its state
C1_Witness ==
    /\ last.op = "Update"
    /\ tfstate.present
    /\ "Set" \in Range(last.calls)
    /\ secrets[SecretPath].password # secretsB[SecretPath].password

\* C2: Update writes to the store only if the planned value_wo_version differs
\* from the recorded one (a null recorded version counts as different); with
\* the version unchanged, the stored value and its revision history are
\* untouched even if a different value_wo is supplied.
C2_WriteOnlyOnVersionChange ==
    [][(last'.op = "Update" /\ last'.version = tfstate.data.ValueWOVersion) =>
        /\ secrets' = secrets
        /\ revisions' = revisions
        /\ Range(last'.calls) \cap {"Set", "Set:err"} = {}]_vars

\* Update ran with the version unchanged and a value other than the stored one
C2_Witness ==
    /\ last.op = "Update"
    /\ ~IsNull(last.version)
    /\ last.version = last.storedVersion
    /\ ~IsNull(last.value)
    /\ secrets[SecretPath].exists
    /\ secrets[SecretPath].password # last.value.value

\* Read found the secret and went on to look its history up
HistoryLookedUp == Range(last.calls) \cap {"Revisions", "Revisions:err"} # {}

\* The revision count of the secret as the store stands: the length of its
\* history, or 1 where the history cannot be had or is empty
CurrentCount ==
    IF "Revisions" \in Range(last.calls) /\ Len(revisions[SecretPath].list) > 0
    THEN Len(revisions[SecretPath].list)
    ELSE 1

\* C3: when Read finds the secret and looks its revisions up, it warns of a
\* modification outside Terraform exactly when the recorded count is above 0
\* and the current count is strictly above the recorded one; otherwise there
\* is no warning, and in no case an error.
C3_DriftWarningExactly ==
    (last.op = "Read" /\ HistoryLookedUp) =>
        /\ (DriftWarning \in last.diags.warnings)
            <=> (last.storedCount > 0 /\ CurrentCount > last.storedCount)
        /\ last.diags.errors = {}

\* A Read that warned
C3_Witness ==
    /\ last.op = "Read"
    /\ HistoryLookedUp
    /\ DriftWarning \in last.diags.warnings

\* C4 as stated: after a successful Update whose planned value_wo_version
\* differs from the recorded one and that was given a value_wo, the store's
\* latest value at the path is that value.
C4_ChangedVersionWrites ==
    (/\ last.op = "Update"
     /\ last.version # last.storedVersion
     /\ ~IsNull(last.value)
     /\ last.diags.errors = {}) =>
        /\ secrets[SecretPath].exists
        /\ secrets[SecretPath].password = last.value.value

\* C4 amended: after a successful Update whose planned value_wo_version is set
\* and differs from the recorded one (or none is recorded) and that was given
\* a value_wo, the store's latest value at the path is that value.
C4_SetChangedVersionWrites ==
    (/\ last.op = "Update"
     /\ ~IsNull(last.version)
     /\ last.version # last.storedVersion
     /\ ~IsNull(last.value)
     /\ last.diags.errors = {}) =>
        /\ "Set" \in Range(last.calls)
        /\ secrets[SecretPath].exists
        /\ secrets[SecretPath].password = last.value.value

\* An Update from no recorded version to a version, with a value, went through
C4_Witness ==
    /\ last.op = "Update"
    /\ IsNull(last.storedVersion)
    /\ ~IsNull(last.version)
    /\ ~IsNull(last.value)
    /\ last.diags.errors = {}

\* C5: when Update is given a version marker that differs from the recorded
\* one but no value_wo, it warns 'Version changed but no value provided',
\* reports no error, leaves the stored value and its history as they are, and
\* records the new version marker in state.
C5_ChangedVersionNoValue ==
    [][(/\ last'.op = "Update"
        /\ ~IsNull(last'.version)
        /\ last'.version # tfstate.data.ValueWOVersion
        /\ IsNull(last'.value)) =>
        /\ NoValueWarning \in last'.diags.warnings
        /\ last'.diags.errors = {}
        /\ secrets' = secrets
        /\ revisions' = revisions
        /\ Range(last'.calls) \cap {"Set", "Set:err"} = {}
        /\ tfstate'.present
        /\ tfstate'.data.ValueWOVersion = last'.version]_vars

\* An Update that bumped the version of an existing secret without a value
C5_Witness ==
    /\ last.op = "Update"
    /\ ~IsNull(last.storedVersion)
    /\ ~IsNull(last.version)
    /\ last.version # last.storedVersion
    /\ IsNull(last.value)
    /\ secrets[SecretPath].exists

\* The store answered the existence check of the last direct call
ExistenceAnswered ==
    /\ ret.fault.kind # "store"
    /\ ret.fault.kind = "init" => ret.hadStore

\* C6: GetRevisionCount returns 0 and no error when the secret is absent, 1
\* and no error when it exists and the history lookup fails or is empty, the
\* length of the history and no error otherwise; it returns an error only
\* when the existence of the secret cannot be determined.
C6_RevisionCountCases ==
    ret.op = "GetRevisionCount" =>
        /\ ExistenceAnswered =>
            /\ ret.err.nil
            /\ ret.count =
                IF ~secrets[SecretPath].exists \/ ret.fault.kind = "nil" THEN 0
                ELSE IF \/ ret.fault.kind = "revisions"
                        \/ ~revisions[SecretPath].exists
                        \/ Len(revisions[SecretPath].list) = 0
                THEN 1
                ELSE Len(revisions[SecretPath].list)
        /\ ~ret.err.nil => ~ExistenceAnswered

\* The secret exists, its history lookup failed, and 1 was returned
C6_Witness ==
    /\ ret.op = "GetRevisionCount"
    /\ secrets[SecretPath].exists
    /\ Len(revisions[SecretPath].list) > 1
    /\ ret.fault.kind = "revisions"
    /\ ret.count = 1

\* The apiNew and store calls of the handler's existence check: those up to
\* and including its Get
RECURSIVE UpToGet(_, _)
UpToGet(calls, i) ==
    IF i > Len(calls) THEN <<>>
    ELSE IF calls[i] \in {"Get", "Get:notfound", "Get:err"} THEN <<calls[i]>>
    ELSE <<calls[i]>> \o UpToGet(calls, i + 1)

\* C11: in Create, Read, Update, Delete and ImportState a failure of the
\* store's existence check, write call or remove call is reported as an error
\* diagnostic.
C11_StoreFailuresAreErrors ==
    Range(last.calls) \cap {"SecretExists:err", "SetSecret:err", "RemoveSecret:err"} # {} =>
        last.diags.errors # {}

\* C12: with delete_on_remove=true, whenever Delete completes without an
\* error diagnostic the secret is absent from the store afterwards.
C12_DeleteLeavesSecretAbsent ==
    [][(/\ last'.op = "Delete"
        /\ tfstate.data.DeleteOnRemove = BoolValue(TRUE)
        /\ last'.diags.errors = {}) =>
        ~secrets'[SecretPath].exists]_vars

\* C13: when Read finds the secret and looks its revisions up, the
\* revision_count it writes to state is the store's current revision count,
\* with or without a drift warning.
C13_ReadRecordsCurrentCount ==
    (last.op = "Read" /\ HistoryLookedUp) =>
        /\ tfstate.present
        /\ tfstate.data.RevisionCount = Int64Value(CurrentCount)

\* A Read that warned of drift and recorded the longer history
C13_Witness ==
    /\ last.op = "Read"
    /\ "Revisions" \in Range(last.calls)
    /\ DriftWarning \in last.diags.warnings
    /\ tfstate.data.RevisionCount.value = Len(revisions[SecretPath].list)
    /\ tfstate.data.RevisionCount.value > last.storedCount

\* C16: when Read finds the secret absent from the store, it removes the
\* resource from state and reports no error.
C16_ReadRemovesAbsentResource ==
    (/\ last.op = "Read"
     /\ "Get:notfound" \in Range(UpToGet(last.calls, 1))) =>
        /\ ~tfstate.present
        /\ last.diags.errors = {}

\* The secret was removed behind Terraform's back and Read noticed
C16_Witness ==
    /\ last.op = "Read"
    /\ ~secrets[SecretPath].exists
    /\ last.calls = <<"Get:notfound">>
    /\ last.storedCount > 0
    /\ ~tfstate.present

\* C18: Create writes the secret exactly when value_wo is supplied: with a
\* value, a Create without error has written that value; without a value it
\* makes no store write, warns 'No value provided', reports no error and
\* records the resource in state with id equal to path.
C18_CreateWritesIffValue ==
    last.op = "Create" =>
        /\ (~IsNull(last.value) /\ last.diags.errors = {}) =>
            /\ "Set" \in Range(last.calls)
            /\ secrets[SecretPath].exists
            /\ secrets[SecretPath].password = last.value.value
            /\ tfstate.present
            /\ tfstate.data.ID = tfstate.data.Path
        /\ IsNull(last.value) =>
            /\ Range(last.calls) \cap {"Set", "Set:err"} = {}
            /\ "No value provided" \in last.diags.warnings
            /\ last.diags.errors = {}
            /\ tfstate.present
            /\ tfstate.data.ID = StringKnown(SecretPath)
            /\ tfstate.data.Path = StringKnown(SecretPath)

\* A Create without a value of a secret that is not in the store
C18_Witness ==
    /\ last.op = "Create"
    /\ IsNull(last.value)
    /\ ~secrets[SecretPath].exists
    /\ tfstate.present
    /\ "No value provided" \in last.diags.warnings

\* C19: when Create's write succeeds but the revision-count lookup returns an
\* error, Create reports no error and records revision_count 0 in state.
C19_CreateLookupErrorRecordsZero ==
    (/\ last.op = "Create"
     /\ "Set" \in Range(last.calls)
     /\ "GetRevisionCount:err" \in Range(last.calls)) =>
        /\ last.diags.errors = {}
        /\ tfstate.present
        /\ tfstate.data.RevisionCount = Int64Value(0)

\* C20: when Update's write succeeds but the revision-count lookup that
\* follows fails, Update reports no error and keeps the revision_count that
\* was recorded before.
C20_UpdateLookupErrorKeepsCount ==
    (/\ last.op = "Update"
     /\ "Set" \in Range(last.calls)
     /\ "GetRevisionCount:err" \in Range(last.calls)) =>
        /\ last.diags.errors = {}
        /\ tfstate.present
        /\ tfstate.data.RevisionCount = Int64Value(last.storedCount)

\* An Update wrote a third revision, the lookup failed, and the count stays 2
C20_Witness ==
    /\ last.op = "Update"
    /\ "Set" \in Range(last.calls)
    /\ "GetRevisionCount:err" \in Range(last.calls)
    /\ last.storedCount = 2
    /\ tfstate.data.RevisionCount = Int64Value(2)
    /\ Len(revisions[SecretPath].list) = 3

\* C17: a store failure other than 'secret absent' (the store cannot be
\* opened, or its Get fails) is always returned as an error by SecretExists
\* and GetRevisionCount, never as the secret being absent.
C17_StoreFailuresSurface ==
    (/\ ret.op \in {"SecretExists", "GetRevisionCount"}
     /\ \/ ret.fault.kind = "store"
        \/ ret.fault.kind = "init" /\ ~ret.hadStore) =>
        ~ret.err.nil

----------------------------------------------------------------------------
(* The lifecycle with the history of drift reports kept: `drift.warned`     *)
(* says that a Read has warned and the store's revision count has not       *)
(* grown since; `drift.modified` says whether the secret was written by     *)
(* someone else since the last Terraform operation, "tracked" if the count  *)
(* in state was then above 0 and within the secret's history.  `met` and    *)
(* `metWarned` keep what the last Terraform operation met of the two.       *)

\* The handler has returned: what it reported and wrote enters the history
Tracked ==
    drift' = [warned |->
                 IF last'.op = "Read" /\ DriftWarning \in last'.diags.warnings THEN TRUE
                 ELSE IF "Set" \in Range(last'.calls) THEN FALSE
                 ELSE drift.warned,
              modified |-> "no",
              met |-> drift.modified,
              metWarned |-> drift.warned]

\* What is written does not matter to the revision count: Terraform writes
\* one value, the others write another
TrackedValue == <<"s", "1">>
OutsideValue == <<"s", "2">>
TrackedConfigValues == {StringNull, StringKnown(TrackedValue)}

InitDrift ==
    /\ client = [store |-> FALSE]
    /\ \E s \in InitialStores :
        /\ s.secret.exists => s.secret.password = OutsideValue
        /\ secrets = [p \in StorePaths |-> s.secret]
        /\ revisions = [p \in StorePaths |-> s.revisions]
    /\ tfstate = NoState
    /\ last = NoCall("none")
    /\ ShadowIdle
    /\ ClientIdle
    /\ TreeIdle
    /\ DriftIdle
    /\ EnvIdle
    /\ ConcIdle
    /\ ReadIdle

CreateTracked ==
    /\ ~tfstate.present
    /\ \E version \in Versions, value \in TrackedConfigValues, f \in FaultPairs :
        LET plan == CreatePlan(version, TRUE)
            config == Config(plan, value)
        IN  /\ ValueProvided(config) => Room
            /\ Returned("Create", tfstate, plan, config,
                        Create(W, plan, config, f[1], f[2]))
    /\ Tracked
    /\ UNCHANGED <<shadowVars, ret, treeVars, env, concVars, reading>>

ReadTracked ==
    /\ tfstate.present
    /\ \E f \in FaultPairs :
        Returned("Read", tfstate, NullModel, NullModel, Read(W, tfstate, f[1], f[2]))
    /\ Tracked
    /\ UNCHANGED <<shadowVars, ret, treeVars, env, concVars, reading>>

UpdateTracked ==
    /\ tfstate.present
    /\ \E version \in Versions, value \in TrackedConfigValues, f \in FaultPairs :
        LET plan == UpdatePlan(tfstate.data, version)
            config == Config(plan, value)
        IN  /\ ValueProvided(config) => Room
            /\ Returned("Update", tfstate, plan, config,
                        Update(W, tfstate, plan, config, f[1], f[2]))
    /\ Tracked
    /\ UNCHANGED <<shadowVars, ret, treeVars, env, concVars, reading>>

DeleteTracked ==
    /\ tfstate.present
    /\ \E f \in FaultPairs :
        Returned("Delete", tfstate, NullModel, NullModel, Delete(W, tfstate, f[1], f[2]))
    /\ Tracked
    /\ UNCHANGED <<shadowVars, ret, treeVars, env, concVars, reading>>

ImportTracked ==
    /\ ~tfstate.present
    /\ \E f \in FaultPairs :
        Returned("ImportState", tfstate, NullModel, NullModel,
                 ImportState(W, SecretPath, f[1], f[2]))
    /\ Tracked
    /\ UNCHANGED <<shadowVars, ret, treeVars, env, concVars, reading>>

\* Someone else writes the secret: its revision count grows
ExternalSetTracked ==
    /\ Room
    /\ LET r == StoreSet(W, SecretPath, OutsideValue, NoFault)
       IN  /\ secrets' = r.w.secrets
           /\ revisions' = r.w.revisions
    /\ last' = NoCall("external")
    /\ drift' = [met |-> "no", metWarned |-> FALSE, warned |-> FALSE,
                 modified |->
                     IF drift.modified # "no" THEN drift.modified
                     ELSE IF ~tfstate.present THEN "no"
                     ELSE IF /\ tfstate.data.RevisionCount.value > 0
                             /\ tfstate.data.RevisionCount.value
                                    <= Len(revisions[SecretPath].list)
                     THEN "tracked"
                     ELSE "untracked"]
    /\ UNCHANGED <<client, tfstate, shadowVars, ret, treeVars, env, concVars, reading>>

\* Someone else removes the secret, and its history with it
ExternalRemoveTracked ==
    /\ secrets[SecretPath].exists
    /\ LET r == StoreRemove(W, SecretPath, NoFault)
       IN  /\ secrets' = r.w.secrets
           /\ revisions' = r.w.revisions
    /\ last' = NoCall("external")
    /\ drift' = [drift EXCEPT !.modified = "no", !.met = "no", !.metWarned = FALSE]
    /\ UNCHANGED <<client, tfstate, shadowVars, ret, treeVars, env, concVars, reading>>

NextDrift ==
    \/ CreateTracked
    \/ ReadTracked
    \/ UpdateTracked
    \/ DeleteTracked
    \/ ImportTracked
    \/ ExternalSetTracked
    \/ ExternalRemoveTracked

SpecDrift == InitDrift /\ [][NextDrift]_vars

\* C14: each modification outside Terraform is reported at most once: after
\* a Read that warned of drift, a later Read warns again only if the store's
\* revision count has grown in between.
C14_DriftReportedOnce ==
    (last.op = "Read" /\ drift.metWarned) => DriftWarning \notin last.diags.warnings

\* C15 as stated: if the secret is written outside Terraform after a
\* Terraform operation recorded its revision count, the next Read warns of
\* drift.
C15_ModificationIsReported ==
    (last.op = "Read" /\ drift.met # "no") => DriftWarning \in last.diags.warnings

\* C15 amended: if a Terraform operation recorded a revision count above 0
\* and within the secret's revision history, the secret is then written
\* outside Terraform without being removed, and the next Terraform operation
\* is a Read that finds the secret and obtains its revision history, that
\* Read warns of drift.
C15_TrackedModificationIsReported ==
    (/\ last.op = "Read"
     /\ drift.met = "tracked"
     /\ "Revisions" \in Range(last.calls)) =>
        DriftWarning \in last.diags.warnings

\* An Update recorded the count, someone else wrote the secret, Read warned
C15_Witness ==
    /\ last.op = "Read"
    /\ drift.met = "tracked"
    /\ ~IsNull(tfstate.data.ValueWOVersion)
    /\ DriftWarning \in last.diags.warnings
    /\ tfstate.data.RevisionCount.value = last.storedCount + 1

----------------------------------------------------------------------------
(* Frame conditions and the remaining handler outcomes *)

\* C21: Read, ImportState and Delete with delete_on_remove=false leave the
\* store as it was: the same secrets, the same values, the same histories.
C21_ReadOnlyOperationsKeepStore ==
    [][(\/ last'.op \in {"Read", "ImportState"}
        \/ last'.op = "Delete" /\ tfstate.data.DeleteOnRemove = BoolValue(FALSE)) =>
            /\ secrets' = secrets
            /\ revisions' = revisions]_vars

\* A Delete with delete_on_remove=false has run on a secret that is in the
\* store with a history, and made no store call
C21_Witness ==
    /\ last.op = "Delete"
    /\ last.calls = <<>>
    /\ ~tfstate.present
    /\ secrets[SecretPath].exists
    /\ Len(revisions[SecretPath].list) > 1

\* C22: Delete with delete_on_remove=true of a secret that is not in the
\* store reports no error and makes no remove call.
C22_DeleteOfAbsentSecret ==
    [][(/\ last'.op = "Delete"
        /\ tfstate.data.DeleteOnRemove = BoolValue(TRUE)
        /\ ~secrets[SecretPath].exists) =>
            /\ last'.diags.errors = {}
            /\ Range(last'.calls) \cap {"Remove", "Remove:notfound", "Remove:err"} = {}]_vars

\* That Delete has run: the store answered that the secret is not there, and
\* the resource left the state with no diagnostic
C22_Witness ==
    /\ last.op = "Delete"
    /\ last.calls = <<"Get:notfound">>
    /\ last.diags = NoDiags
    /\ ~tfstate.present
    /\ ~secrets[SecretPath].exists

\* The existence check of the last call answered that the secret is there:
\* the call went on to its second client call
SecretFound ==
    /\ "SecretExists:err" \notin Range(last.calls)
    /\ Len(last.calls) > Len(UpToGet(last.calls, 1))

\* C23: ImportState of a secret that is absent, or whose existence cannot be
\* checked, fails with an error and sets no state; otherwise the state gets id
\* and path from the import ID, delete_on_remove true, and as revision_count
\* the store's current count, or 1 when the count lookup fails.
C23_ImportOutcome ==
    last.op = "ImportState" =>
        /\ ~secrets[SecretPath].exists => ~SecretFound
        /\ IF ~SecretFound
           THEN /\ last.diags.errors # {}
                /\ ~tfstate.present
           ELSE /\ last.diags.errors = {}
                /\ tfstate.present
                /\ tfstate.data.ID = StringKnown(SecretPath)
                /\ tfstate.data.Path = StringKnown(SecretPath)
                /\ tfstate.data.DeleteOnRemove = BoolValue(TRUE)
                /\ tfstate.data.RevisionCount =
                       Int64Value(IF HistoryLookedUp THEN CurrentCount ELSE 1)

----------------------------------------------------------------------------
(* gopass_env: ListSecrets, GetSecret, GetEnvSecrets and Open, over a store *)
(* that holds secrets inside and outside the listed path                   *)

MaxDepth == 3   \* deepest secret below the listed path, in segments

Slash == <<"/">>

\* strings.HasPrefix(s, prefix)
HasPrefix(s, prefix) ==
    Len(s) >= Len(prefix) /\ SubSeq(s, 1, Len(prefix)) = prefix

\* strings.TrimPrefix(s, prefix)
TrimPrefix(s, prefix) ==
    IF HasPrefix(s, prefix) THEN SubSeq(s, Len(prefix) + 1, Len(s)) ELSE s

\* strings.TrimSuffix(s, suffix)
TrimSuffix(s, suffix) ==
    IF Len(s) >= Len(suffix) /\ SubSeq(s, Len(s) - Len(suffix) + 1, Len(s)) = suffix
    THEN SubSeq(s, 1, Len(s) - Len(suffix))
    ELSE s

\* The names a store is given: e/K, e/J, e/A/K, e/A/A/K, ... below the path
\* e, and o/K and ee/K outside it
RECURSIVE Below(_)
Below(d) == IF d = 1 THEN <<"/", "K">> ELSE <<"/", "A">> \o Below(d - 1)

EnvPaths ==
    {<<"e">> \o Below(d) : d \in 1..MaxDepth}
    \cup {<<"e", "/", "J">>, <<"o", "/", "K">>, <<"e", "e", "/", "K">>}

\* The value a secret of that name holds: x in the secrets named K directly
\* below a one-segment path, y in all others
EnvPassword(p) == IF Len(p) = 3 /\ p[3] = "K" THEN <<"x">> ELSE <<"y">>

\* The path attribute of gopass_env as configurations give it
EnvPrefixes == {<<"e">>, <<"e", "/">>, <<"e", "/", "A">>, <<"o">>}

\* What goes wrong in the listing: nothing, apiNew failing, List failing
EnvFaults == {NoFault, [kind |-> "init", msg |-> <<>>], [kind |-> "store", msg |-> MsgDenied]}

\* store.List(ctx): the names of all secrets
StoreList(w, fault) ==
    IF fault.kind = "store" THEN [list |-> {}, err |-> Error(fault.msg)]
    ELSE [list |-> {p \in DOMAIN w.secrets : w.secrets[p].exists}, err |-> NoError]

ListSecrets(w, prefix, fault) ==
    LET e == ensureStore(w, fault)
    IN  IF ~e.err.nil THEN [w |-> e.w, val |-> {}, err |-> e.err]
        ELSE LET trimmed == TrimSuffix(prefix, Slash)
                 allSecrets == StoreList(e.w, fault)
                 prefixWithSlash == trimmed \o Slash
             IN  IF ~allSecrets.err.nil THEN [w |-> e.w, val |-> {}, err |-> allSecrets.err]
                 ELSE [w |-> e.w,
                       val |-> {secretPath \in allSecrets.list :
                                  /\ HasPrefix(secretPath, prefixWithSlash)
                                  /\ ~Contains(TrimPrefix(secretPath, prefixWithSlash), Slash)},
                       err |-> NoError]

GetSecret(w, path, fault) ==
    LET e == ensureStore(w, fault)
    IN  IF ~e.err.nil THEN [w |-> e.w, val |-> <<>>, err |-> e.err]
        ELSE LET g == StoreGet(e.w, path, fault)
             IN  IF ~g.err.nil THEN [w |-> e.w, val |-> <<>>, err |-> g.err]
                 ELSE [w |-> e.w, val |-> e.w.secrets[path].password, err |-> NoError]

\* key := strings.TrimPrefix(fullPath, prefix+"/")
EnvKey(fullPath, prefix) == TrimPrefix(fullPath, prefix \o Slash)

\* The fault of GetSecret on a path: store.Get fails for the paths of failOnGet
GetFault(path, failOnGet) ==
    IF path \in failOnGet THEN [kind |-> "store", msg |-> MsgDenied] ELSE NoFault

\* Mutant: the first read that fails ends the call with its error
GetEnvSecretsFailFast(w, prefix, fault, failOnGet) ==
    LET ls == ListSecrets(w, prefix, fault)
    IN  IF ~ls.err.nil THEN [w |-> ls.w, val |-> <<>>, err |-> ls.err]
        ELSE IF ls.val \cap failOnGet # {}
        THEN [w |-> ls.w, val |-> <<>>, err |-> Error(MsgDenied)]
        ELSE LET trimmed == TrimSuffix(prefix, Slash)
                 keys == {EnvKey(p, trimmed) : p \in ls.val}
             IN  [w |-> ls.w,
                  val |-> [key \in keys |->
                             GetSecret(ls.w, CHOOSE p \in ls.val : EnvKey(p, trimmed) = key,
                                       NoFault).val],
                  err |-> NoError]

\* The loop reads each listed secret and skips those whose read fails; the
\* keys of distinct listed paths under one prefix are distinct
GetEnvSecrets(w, prefix, fault, failOnGet) ==
    LET ls == ListSecrets(w, prefix, fault)
    IN  IF ~ls.err.nil THEN [w |-> ls.w, val |-> <<>>, err |-> ls.err]
        ELSE LET trimmed == TrimSuffix(prefix, Slash)
                 read == {p \in ls.val : GetSecret(ls.w, p, GetFault(p, failOnGet)).err.nil}
                 keys == {EnvKey(p, trimmed) : p \in read}
             IN  [w |-> ls.w,
                  val |-> [key \in keys |->
                             GetSecret(ls.w, CHOOSE p \in read : EnvKey(p, trimmed) = key,
                                       NoFault).val],
                  err |-> NoError]

\* EnvEphemeralResource.Open; order is the order in which buildNestedObject
\* ranges over the values
Open(w, basePath, fault, failOnGet, order) ==
    LET r == GetEnvSecrets(w, basePath, fault, failOnGet)
    IN  IF ~r.err.nil
        THEN [w |-> r.w, values |-> r.val, err |-> r.err, panic |-> FALSE,
              diags |-> AddError(NoDiags, "Failed to read secrets"),
              credentials |-> ObjectNull]
        ELSE LET built == buildNestedObject(r.val, order)
             IN  [w |-> r.w, values |-> r.val, err |-> r.err, panic |-> built.panic,
                  diags |-> IF DOMAIN r.val = {}
                            THEN AddWarning(NoDiags, "No secrets found")
                            ELSE NoDiags,
                  credentials |-> built.object]

InitEnv ==
    /\ client = [store |-> FALSE]
    /\ \E present \in SUBSET EnvPaths :
        secrets = [p \in EnvPaths |->
                     IF p \in present THEN [exists |-> TRUE, password |-> EnvPassword(p)]
                     ELSE NoSecret]
    /\ revisions = [p \in EnvPaths |-> NoRevisions]
    /\ tfstate = NoState
    /\ last = NoCall("none")
    /\ ShadowIdle
    /\ ClientIdle
    /\ TreeIdle
    /\ DriftIdle
    /\ EnvIdle
    /\ ConcIdle
    /\ ReadIdle

\* The secrets a call may fail to read: any of those it lists
MayFail(basePath) == SUBSET ListSecrets(W, basePath, NoFault).val

GetEnvSecretsCall ==
    /\ \E prefix \in EnvPrefixes, fault \in EnvFaults :
       \E failOnGet \in MayFail(prefix) :
        LET r == GetEnvSecrets(W, prefix, fault, failOnGet)
        IN  /\ client' = [store |-> r.w.store]
            /\ env' = [op |-> "GetEnvSecrets", path |-> prefix,
                       fault |-> IF client.store /\ fault.kind = "init" THEN NoFault ELSE fault,
                       failOnGet |-> failOnGet,
                       values |-> r.val, err |-> r.err, diags |-> NoDiags,
                       panic |-> FALSE, credentials |-> ObjectNull]
    /\ UNCHANGED <<secrets, revisions, tfstate, last, shadowVars, ret, treeVars, drift, concVars, reading>>

OpenEnv ==
    /\ \E basePath \in EnvPrefixes, fault \in EnvFaults :
       \E failOnGet \in MayFail(basePath) :
       \E order \in Orders(DOMAIN GetEnvSecrets(W, basePath, fault, failOnGet).val) :
        LET r == Open(W, basePath, fault, failOnGet, order)
        IN  /\ client' = [store |-> r.w.store]
            /\ env' = [op |-> "Open", path |-> basePath,
                       fault |-> IF client.store /\ fault.kind = "init" THEN NoFault ELSE fault,
                       failOnGet |-> failOnGet,
                       values |-> r.values, err |-> r.err, diags |-> r.diags,
                       panic |-> r.panic, credentials |-> r.credentials]
    /\ UNCHANGED <<secrets, revisions, tfstate, last, shadowVars, ret, treeVars, drift, concVars, reading>>

NextEnv ==
    \/ GetEnvSecretsCall
    \/ OpenEnv

SpecEnv == InitEnv /\ [][NextEnv]_vars

----------------------------------------------------------------------------
(* gopass_env: what a call yields *)

\* The string attributes of an object at any depth, by the attribute names
\* that lead to them
RECURSIVE Leaves(_, _)
Leaves(obj, prefix) ==
    IF obj.type = "string" THEN {[path |-> prefix, value |-> obj.str]}
    ELSE IF obj.state # "known" THEN {}
    ELSE UNION {Leaves(obj.attrs[k], Append(prefix, k)) : k \in DOMAIN obj.attrs}

\* The secrets the store holds below a path, at any depth
StoredBelow(path) ==
    {p \in EnvPaths : secrets[p].exists /\ HasPrefix(p, TrimSuffix(path, Slash) \o Slash)}

\* The name of a secret relative to a path
Relative(p, path) == TrimPrefix(p, TrimSuffix(path, Slash) \o Slash)

\* C24: Open for a path, when every read succeeds, yields in credentials every
\* secret stored below the path at any depth, each under the segments of its
\* relative name (path/A/A/K as credentials.A.A.K), and nothing else.
C24_OpenYieldsAllBelowPath ==
    (env.op = "Open" /\ env.err.nil /\ env.failOnGet = {}) =>
        Leaves(env.credentials, <<>>) =
            {[path |-> Split(Relative(p, env.path)), value |-> secrets[p].password] :
                p \in StoredBelow(env.path)}

\* The secrets directly below a path: what ListSecrets lists
ListedBelow(path) ==
    {p \in StoredBelow(path) : ~Contains(Relative(p, path), Slash)}

\* C25: when the listing succeeds, GetEnvSecrets returns no error, leaves out
\* every listed secret whose read fails, and returns every other listed
\* secret under its name relative to the prefix, with its value.
C25_FailedReadsAreSkipped ==
    (env.op = "GetEnvSecrets" /\ env.fault = NoFault) =>
        /\ env.err.nil
        /\ env.values =
            [key \in {Relative(p, env.path) : p \in ListedBelow(env.path) \ env.failOnGet} |->
                secrets[CHOOSE p \in ListedBelow(env.path) : Relative(p, env.path) = key].password]

\* Two secrets are listed and the read of one failed: the other is returned
C25_Witness ==
    /\ env.op = "GetEnvSecrets"
    /\ env.fault = NoFault
    /\ env.path = <<"e", "/">>
    /\ env.failOnGet = {<<"e", "/", "J">>}
    /\ secrets[<<"e", "/", "K">>].exists
    /\ env.err.nil
    /\ env.values = [key \in {<<"K">>} |-> <<"x">>]

----------------------------------------------------------------------------
(* Failed writes *)

\* The store calls the last Create or Update would make if the same plan and
\* configuration were applied to the state and the store as they now stand,
\* with no failure
Reapplied ==
    IF last.op = "Create"
    THEN LET plan == CreatePlan(last.version, TRUE)
         IN  Create(W, plan, Config(plan, last.value), NoFault, NoFault).calls
    ELSE LET plan == UpdatePlan(tfstate.data, last.version)
         IN  Update(W, tfstate, plan, Config(plan, last.value), NoFault, NoFault).calls

\* C26: when the store write of a Create or an Update fails, the operation
\* reports an error and the Terraform state is as before the call (no
\* resource after Create; version marker and revision_count unchanged after
\* Update), so that applying the same plan again makes the write again.
C26_FailedWriteLeavesState ==
    (last.op \in {"Create", "Update"} /\ "SetSecret:err" \in Range(last.calls)) =>
        /\ last.diags.errors # {}
        /\ last.op = "Create" => tfstate = NoState
        /\ last.op = "Update" =>
            /\ tfstate.present
            /\ tfstate.data.ValueWOVersion = last.storedVersion
            /\ tfstate.data.RevisionCount.value = last.storedCount
        /\ "Set" \in Range(Reapplied)

\* An Update whose write failed: the new version is not recorded
C26_Witness ==
    /\ last.op = "Update"
    /\ "Set:err" \in Range(last.calls)
    /\ last.diags.errors = {"Failed to update secret"}
    /\ tfstate.present
    /\ tfstate.data.ValueWOVersion = last.storedVersion
    /\ tfstate.data.ValueWOVersion # last.version
    /\ tfstate.data.RevisionCount = Int64Value(last.storedCount)
    /\ last.storedCount > 1

----------------------------------------------------------------------------
(* The resource alone: Create, Update and Read, and nobody else at the store *)

NextAlone ==
    \/ CreateResource
    \/ ReadResource
    \/ UpdateResource

SpecAlone == Init /\ [][NextAlone]_vars

\* C27: in every sequence of Create, Update and Read calls with no change to
\* the store from outside, failed revision lookups and recorded fallback
\* counts included, no Read emits the drift warning.
C27_NoWarningWithoutOutsideWrite ==
    last.op = "Read" => DriftWarning \notin last.diags.warnings

----------------------------------------------------------------------------
(* GopassClient.ensureStore under concurrent client operations *)

MaxGoroutines == 3   \* goroutines calling the client at the same time

Goroutines == 1..MaxGoroutines

InitConc ==
    /\ LifecycleInit
    /\ ~secrets[SecretPath].exists
    /\ ShadowIdle
    /\ ClientIdle
    /\ TreeIdle
    /\ DriftIdle
    /\ EnvIdle
    /\ ReadIdle
    /\ mu = 0
    /\ handle = 0
    /\ pc = [g \in Goroutines |-> "idle"]
    /\ local = [g \in Goroutines |-> 0]
    /\ result = [g \in Goroutines |-> "none"]
    /\ created = 0
    /\ failed = [ever |-> FALSE, retried |-> FALSE]

\* What a step of a goroutine leaves alone outside the client
RestUnchanged ==
    UNCHANGED <<secrets, revisions, tfstate, last, shadowVars, ret, treeVars, drift, env, reading>>

\* Mutant: the lock is taken whoever holds it
CanLockAlways(g) == TRUE

\* c.mu.Lock() returns only when nobody holds the mutex
CanLock(g) == mu = 0

\* A client operation starts: its first statement is c.ensureStore(ctx)
CallOperation(g) ==
    /\ pc[g] = "idle"
    /\ pc' = [pc EXCEPT ![g] = "lock"]
    /\ result' = [result EXCEPT ![g] = "none"]
    /\ client' = client
    /\ UNCHANGED <<mu, handle, local, created, failed>>
    /\ RestUnchanged

\* c.mu.Lock(); defer c.mu.Unlock()
Lock(g) ==
    /\ pc[g] = "lock"
    /\ CanLock(g)
    /\ mu' = g
    /\ pc' = [pc EXCEPT ![g] = "check"]
    /\ client' = client
    /\ UNCHANGED <<handle, local, result, created, failed>>
    /\ RestUnchanged

\* if c.store != nil { return nil }
CheckStore(g) ==
    /\ pc[g] = "check"
    /\ IF handle # 0
       THEN /\ pc' = [pc EXCEPT ![g] = "return"]
            /\ result' = [result EXCEPT ![g] = "nil"]
       ELSE /\ pc' = [pc EXCEPT ![g] = "path"]
            /\ result' = result
    /\ client' = client
    /\ UNCHANGED <<mu, handle, local, created, failed>>
    /\ RestUnchanged

\* The configured store path: with one set, userHomeDir or os.Stat can fail
\* and ensureStore returns the error; with none, apiNew is next
StorePath(g) ==
    /\ pc[g] = "path"
    /\ \E ok \in BOOLEAN :
        IF ok
        THEN /\ pc' = [pc EXCEPT ![g] = "new"]
             /\ result' = result
             /\ failed' = failed
        ELSE /\ pc' = [pc EXCEPT ![g] = "return"]
             /\ result' = [result EXCEPT ![g] = "err"]
             /\ failed' = [ever |-> TRUE, retried |-> failed.ever]
    /\ client' = client
    /\ UNCHANGED <<mu, handle, local, created>>
    /\ RestUnchanged

\* store, err := c.apiNew(ctx): every success is a store of its own
ApiNew(g) ==
    /\ pc[g] = "new"
    /\ \E ok \in BOOLEAN :
        IF ok
        THEN /\ created' = created + 1
             /\ local' = [local EXCEPT ![g] = created + 1]
             /\ pc' = [pc EXCEPT ![g] = "set"]
             /\ result' = result
             /\ failed' = [failed EXCEPT !.retried = failed.ever]
        ELSE /\ pc' = [pc EXCEPT ![g] = "return"]
             /\ result' = [result EXCEPT ![g] = "err"]
             /\ failed' = [ever |-> TRUE, retried |-> failed.ever]
             /\ UNCHANGED <<local, created>>
    /\ client' = client
    /\ UNCHANGED <<mu, handle>>
    /\ RestUnchanged

\* c.store = store; return nil
SetStore(g) ==
    /\ pc[g] = "set"
    /\ handle' = local[g]
    /\ client' = [store |-> TRUE]
    /\ pc' = [pc EXCEPT ![g] = "return"]
    /\ result' = [result EXCEPT ![g] = "nil"]
    /\ UNCHANGED <<mu, local, created, failed>>
    /\ RestUnchanged

\* ensureStore returns: the deferred c.mu.Unlock() runs. On an error the
\* operation returns it; otherwise it goes on to its store call.
Unlock(g) ==
    /\ pc[g] = "return"
    /\ mu' = IF mu = g THEN 0 ELSE mu
    /\ pc' = [pc EXCEPT ![g] = IF result[g] = "err" THEN "idle" ELSE "use"]
    /\ client' = client
    /\ UNCHANGED <<handle, local, result, created, failed>>
    /\ RestUnchanged

\* c.store.Get / Set / Remove / List / Revisions: the operation ends
UseStore(g) ==
    /\ pc[g] = "use"
    /\ pc' = [pc EXCEPT ![g] = "idle"]
    /\ client' = client
    /\ UNCHANGED <<mu, handle, local, result, created, failed>>
    /\ RestUnchanged

NextConc ==
    \E g \in Goroutines :
        \/ CallOperation(g)
        \/ Lock(g)
        \/ CheckStore(g)
        \/ StorePath(g)
        \/ ApiNew(g)
        \/ SetStore(g)
        \/ Unlock(g)
        \/ UseStore(g)

SpecConc == InitConc /\ [][NextConc]_vars

\* C28: in every interleaving of concurrent client operations the store
\* handle is set by at most one successful apiNew call, is never replaced
\* once set, is still unset when an initialisation fails, and an operation
\* that finds it unset attempts the initialisation.
C28_StoreHandleSetOnce ==
    [][/\ created' <= 1
       /\ handle # 0 => handle' = handle
       /\ \A g \in Goroutines :
           /\ (pc[g] \in {"path", "new"} /\ result'[g] = "err") => handle' = 0
           /\ (pc[g] = "check" /\ handle = 0 /\ pc'[g] # "check") => pc'[g] = "path"
           /\ (pc[g] = "use") => handle # 0]_vars

\* An initialisation failed, a later operation tried again and set the
\* handle, and another goroutine now uses it
C28_Witness ==
    /\ failed.ever
    /\ failed.retried
    /\ handle = 1
    /\ created = 1
    /\ \E g \in Goroutines : pc[g] = "use" /\ local[g] = 0

----------------------------------------------------------------------------
(* Read with another actor at the store between its two client calls *)

\* Terraform runs one operation on the resource at a time
NoReadInFlight == reading.at = "idle"

\* Read up to and including its existence check. Unless the secret is found,
\* Read returns here.
ReadExistenceCheck ==
    /\ NoReadInFlight
    /\ tfstate.present
    /\ \E f \in Faults :
        LET ex == SecretExists(W, SecretPath, f)
        IN  IF ex.err.nil /\ ex.val
            THEN /\ reading' = [at |-> "lookup", calls |-> ex.calls]
                 /\ client' = [store |-> ex.w.store]
                 /\ last' = NoCall("Read:check")
                 /\ UNCHANGED <<secrets, revisions, tfstate>>
            ELSE /\ Returned("Read", tfstate, NullModel, NullModel,
                             Read(W, tfstate, f, NoFault))
                 /\ reading' = reading
    /\ UNCHANGED <<shadowVars, ret, treeVars, drift, env, concVars>>

\* The rest of Read: the revision lookup, the drift check, the state
ReadRevisionLookup ==
    /\ reading.at = "lookup"
    /\ \E f \in Faults :
        Returned("Read", tfstate, NullModel, NullModel,
                 ReadDriftCheck(W, tfstate, reading.calls, f))
    /\ reading' = [at |-> "idle", calls |-> <<>>]
    /\ UNCHANGED <<shadowVars, ret, treeVars, drift, env, concVars>>

\* The other actor's steps keep `last` while a Read is in flight
OutsideSet ==
    /\ Room
    /\ \E v \in SecretValues :
        LET r == StoreSet(W, SecretPath, v, NoFault)
        IN  /\ secrets' = r.w.secrets
            /\ revisions' = r.w.revisions
    /\ last' = IF NoReadInFlight THEN NoCall("external") ELSE last
    /\ UNCHANGED <<client, tfstate, shadowVars, ret, treeVars, drift, env, concVars, reading>>

OutsideRemove ==
    /\ secrets[SecretPath].exists
    /\ LET r == StoreRemove(W, SecretPath, NoFault)
       IN  /\ secrets' = r.w.secrets
           /\ revisions' = r.w.revisions
    /\ last' = IF NoReadInFlight THEN NoCall("external") ELSE last
    /\ UNCHANGED <<client, tfstate, shadowVars, ret, treeVars, drift, env, concVars, reading>>

NextRace ==
    \/ NoReadInFlight /\ CreateResource
    \/ NoReadInFlight /\ ImportResource
    \/ ReadExistenceCheck
    \/ ReadRevisionLookup
    \/ OutsideSet
    \/ OutsideRemove

SpecRace == Init /\ [][NextRace]_vars

\* C29: whenever Read keeps the resource in state after a revision lookup
\* that returned no error, the revision_count it records is at least 1,
\* whatever another actor removes or writes between Read's existence check
\* and its revision lookup.
C29_KeptResourceHasBaseline ==
    (/\ last.op = "Read"
     /\ tfstate.present
     /\ SecretFound
     /\ "GetRevisionCount:err" \notin Range(last.calls)) =>
        tfstate.data.RevisionCount.value >= 1

====
